---- MODULE Spec2Model ----
(***************************************************************************)
(* Model of decanter.core.jobs.task: the Task / CoreTask life cycle        *)
(* (run_core_task, update, update_task_response, stop), the is_done /      *)
(* is_success / is_fail predicates and the shared CoreTask.BAR_CNT slot    *)
(* counter.                                                                *)
(*                                                                         *)
(* Values.  None is the string "None".  A JSON body is a record with the   *)
(* four CoreKeys; a key the body does not hold carries Missing (for the    *)
(* numeric progress key: NoProgress), so that response[key] raising        *)
(* KeyError is Has(body, key) being false.  progress is a fraction in      *)
(* [0, 1]; it is kept exactly, in thousandths.                             *)
(*                                                                         *)
(* Steps.  run_core_task and stop are plain methods: on the event loop     *)
(* each runs to its end as one step.  update is a coroutine with one       *)
(* await: it is two steps, UpdateCall up to the await and UpdateReturn     *)
(* from it.  What the remote service answers is chosen by the step.        *)
(* CoreStatus, CoreKeys, check_response and get_key live in                *)
(* decanter.core.extra and are taken from the specification.               *)
(***************************************************************************)
EXTENDS Integers, Sequences, FiniteSets, TLC

VARIABLES status, result, id, response, progress, pbar, BAR_CNT,
          pc, task_id, ran, last, class

vars == <<status, result, id, response, progress, pbar, BAR_CNT,
          pc, task_id, ran, last, class>>

attrs == <<status, result, id, response, progress, pbar>>

(* ---------------------------------------------------------------- bounds *)
\* the task instances of one process
Tasks == {"t1", "t2"}
\* the task instance the sequential specification drives
SeqTasks == {"t1"}
\* job identifiers the service issues
MaxIds == 2
IdNames == <<"J1", "J2", "J3", "J4">>
Ids == {IdNames[i] : i \in 1..MaxIds}
\* result payloads the service reports
MaxResults == 1
ResultNames == <<"R1", "R2", "R3">>
Results == {ResultNames[i] : i \in 1..MaxResults}
\* progress fractions the service reports, in thousandths
ProgressValues == {295, 1000}

None == "None"
Missing == "missing"
NoProgress == 0 - 1

(* ------------------------------------------------- decanter.core.extra  *)
PENDING == "pending"
RUNNING == "running"
DONE == "done"
FAIL == "fail"
Status == {PENDING, RUNNING, DONE, FAIL}
DONE_STATUS == {DONE, FAIL}
FAIL_STATUS == {FAIL}

\* CoreKeys, in the order update_task_response walks them
CoreKeys == <<"id", "progress", "result", "status">>

\* JSON bodies of the service: any subset of the keys may be absent
Bodies ==
    [id : Ids \cup {Missing},
     progress : ProgressValues \cup {NoProgress},
     result : Results \cup {Missing},
     status : Status \cup {Missing}]

EmptyBody ==
    [id |-> Missing, progress |-> NoProgress, result |-> Missing,
     status |-> Missing]

\* key in body
Has(body, key) ==
    IF key = "progress" THEN body.progress # NoProgress
    ELSE body[key] # Missing

\* the value of self.response: None, a raw transport response (ok tells a
\* 2xx answer), or the decoded JSON body
NoResponse == [kind |-> None, ok |-> FALSE, body |-> EmptyBody]
Raw(ok, body) == [kind |-> "raw", ok |-> ok, body |-> body]
Json(body) == [kind |-> "json", ok |-> TRUE, body |-> body]

\* check_response(response, key): TRUE when it returns the response,
\* FALSE when it raises (non-success answer, or key asked for and absent)
check_response(resp, key) ==
    /\ resp.ok
    /\ (key # None => Has(resp.body, key))

\* get_key(response, key)
get_key(body, key) == body[key]

(* ------------------------------------------------------------ class Task *)
\* the fields of one task object, as the methods below read and write them
Self(t) ==
    [status |-> status[t], result |-> result[t], id |-> id[t],
     response |-> response[t], progress |-> progress[t], pbar |-> pbar[t]]

\* mutant of is_done: only DONE counts as done
is_done_only_done(self) == self.status = DONE

is_done(self) == self.status \in DONE_STATUS

not_done(self) == ~is_done(self)

is_success(self) == self.status = DONE /\ self.result # None

\* mutant of is_fail: tests DONE_STATUS where the code tests FAIL_STATUS
is_fail_done_status(self) ==
    \/ self.status \in DONE_STATUS
    \/ (self.status = DONE /\ self.result = None)

is_fail(self) ==
    \/ self.status \in FAIL_STATUS
    \/ (self.status = DONE /\ self.result = None)

(* -------------------------------------------------------- class CoreTask *)
\* self.pbar: None, or the tqdm bar with its position and its count n
NoBar == [position |-> 0 - 1, n |-> 0]

\* tqdm(total=100, position=...)
PbarTotal == 100
tqdm(position) == [position |-> position, n |-> 0]

\* int(x) of the fraction num/den: truncation toward zero
int(num, den) ==
    IF num >= 0 THEN num \div den ELSE 0 - ((0 - num) \div den)

\* update_pbar(resp_progress): progress is in thousandths, so
\* (resp_progress - self.progress)*100 is the difference over 10
update_pbar(self, resp_progress) ==
    LET diff == int((resp_progress - self.progress) * PbarTotal,
                    10 * PbarTotal)
    IN [self EXCEPT !.pbar.n = self.pbar.n + diff,
                    !.progress = resp_progress]

\* mutant of SetKey: the progress stored never goes below the one held
SetKey_clamped(self, body, key) ==
    IF ~Has(body, key) THEN self
    ELSE IF key = "id" THEN [self EXCEPT !.id = body.id]
    ELSE IF key = "progress"
         THEN IF body.progress < self.progress THEN self
              ELSE [update_pbar(self, body.progress)
                      EXCEPT !.progress = body.progress]
    ELSE IF key = "result" THEN [self EXCEPT !.result = body.result]
    ELSE [self EXCEPT !.status = body.status]

\* mutant of SetKey: the id of the payload is not stored
SetKey_keeps_id(self, body, key) ==
    IF ~Has(body, key) THEN self
    ELSE IF key = "id" THEN self
    ELSE IF key = "progress"
         THEN [update_pbar(self, body.progress)
                 EXCEPT !.progress = body.progress]
    ELSE IF key = "result" THEN [self EXCEPT !.result = body.result]
    ELSE [self EXCEPT !.status = body.status]

\* mutant of SetKey: a status of the payload that is PENDING is not stored
SetKey_no_pending(self, body, key) ==
    IF ~Has(body, key) THEN self
    ELSE IF key = "id" THEN [self EXCEPT !.id = body.id]
    ELSE IF key = "progress"
         THEN [update_pbar(self, body.progress)
                 EXCEPT !.progress = body.progress]
    ELSE IF key = "result" THEN [self EXCEPT !.result = body.result]
    ELSE IF body.status = PENDING THEN self
    ELSE [self EXCEPT !.status = body.status]

\* one turn of the loop of update_task_response: setattr(self, attr,
\* response[key]), skipped when response[key] raises KeyError
SetKey(self, body, key) ==
    IF ~Has(body, key) THEN self
    ELSE IF key = "id" THEN [self EXCEPT !.id = body.id]
    ELSE IF key = "progress"
         THEN [update_pbar(self, body.progress)
                 EXCEPT !.progress = body.progress]
    ELSE IF key = "result" THEN [self EXCEPT !.result = body.result]
    ELSE [self EXCEPT !.status = body.status]

\* mutant of update_task_response: the try encloses the whole loop, so the
\* first absent key ends it
update_task_response_first_miss(self) ==
    LET body == self.response.body
        s1 == IF Has(body, CoreKeys[1])
              THEN SetKey(self, body, CoreKeys[1]) ELSE self
        ok1 == Has(body, CoreKeys[1])
        s2 == IF ok1 /\ Has(body, CoreKeys[2])
              THEN SetKey(s1, body, CoreKeys[2]) ELSE s1
        ok2 == ok1 /\ Has(body, CoreKeys[2])
        s3 == IF ok2 /\ Has(body, CoreKeys[3])
              THEN SetKey(s2, body, CoreKeys[3]) ELSE s2
        ok3 == ok2 /\ Has(body, CoreKeys[3])
        s4 == IF ok3 /\ Has(body, CoreKeys[4])
              THEN SetKey(s3, body, CoreKeys[4]) ELSE s3
    IN [self |-> s4, raised |-> FALSE]

\* update_task_response(): the keys id, progress, result, status in turn.
\* raised: the AttributeError of self.pbar.update when pbar is None, which
\* leaves the loop at the progress key
update_task_response(self) ==
    LET body == self.response.body
        s1 == SetKey(self, body, CoreKeys[1])
    IN IF Has(body, CoreKeys[2]) /\ s1.pbar = NoBar
       THEN [self |-> s1, raised |-> TRUE]
       ELSE [self |-> SetKey(SetKey(SetKey(s1, body, CoreKeys[2]),
                                    body, CoreKeys[3]),
                             body, CoreKeys[4]),
             raised |-> FALSE]

\* what a call of the service API can give: an exception of the transport,
\* or a raw response
Exc == [kind |-> "exc", ok |-> FALSE, body |-> EmptyBody]

\* api_func(**kwargs) of run_core_task: rejected, accepted with an id, or
\* answered without one
SubmitOutcomes ==
    {Exc, Raw(FALSE, EmptyBody)}
    \cup {Raw(TRUE, [EmptyBody EXCEPT !.id = i]) : i \in Ids \cup {Missing}}

\* core_service.get_tasks_by_id(task_id): the service knows no job None
QueryOutcomes(tid) ==
    {Exc, Raw(FALSE, EmptyBody)}
    \cup (IF tid = None THEN {} ELSE {Raw(TRUE, b) : b \in Bodies})

\* core_service.put_tasks_stop_by_id(id)
StopOutcomes == {Exc, Raw(FALSE, EmptyBody), Raw(TRUE, EmptyBody)}

\* mutant of run_core_task: BAR_CNT is not incremented
run_core_task_no_increment(self, cnt, r) ==
    IF r.kind = "exc" \/ ~check_response(r, CoreKeys[1])
    THEN [self |-> self, cnt |-> cnt, raised |-> TRUE]
    ELSE [self |-> [self EXCEPT !.response = Json(r.body),
                                !.id = get_key(r.body, CoreKeys[1]),
                                !.pbar = tqdm(cnt),
                                !.status = RUNNING],
          cnt |-> cnt, raised |-> FALSE]

\* mutant of run_core_task: the bar is registered before the response is
\* checked
run_core_task_bar_first(self, cnt, r) ==
    IF r.kind = "exc" \/ ~check_response(r, CoreKeys[1])
    THEN [self |-> [self EXCEPT !.pbar = tqdm(cnt)],
          cnt |-> cnt + 1, raised |-> TRUE]
    ELSE [self |-> [self EXCEPT !.response = Json(r.body),
                                !.id = get_key(r.body, CoreKeys[1]),
                                !.pbar = tqdm(cnt),
                                !.status = RUNNING],
          cnt |-> cnt + 1, raised |-> FALSE]

\* mutant of run_core_task: the identifier of the response is not stored
run_core_task_no_id(self, cnt, r) ==
    IF r.kind = "exc" \/ ~check_response(r, CoreKeys[1])
    THEN [self |-> self, cnt |-> cnt, raised |-> TRUE]
    ELSE [self |-> [self EXCEPT !.response = Json(r.body),
                                !.pbar = tqdm(cnt),
                                !.status = RUNNING],
          cnt |-> cnt + 1, raised |-> FALSE]

\* run_core_task(api_func, **kwargs), r the outcome of api_func(**kwargs)
run_core_task(self, cnt, r) ==
    IF r.kind = "exc" \/ ~check_response(r, CoreKeys[1])
    THEN [self |-> self, cnt |-> cnt, raised |-> TRUE]
    ELSE LET s1 == [self EXCEPT !.response = Json(r.body)]
             s2 == [s1 EXCEPT !.id = get_key(s1.response.body, CoreKeys[1])]
             s3 == [s2 EXCEPT !.pbar = tqdm(cnt)]
         IN [self |-> [s3 EXCEPT !.status = RUNNING],
             cnt |-> cnt + 1, raised |-> FALSE]

\* mutant of update: no test of DONE_STATUS after the await
update_no_done_test(self, r) ==
    IF r.kind = "exc" THEN [self |-> self, raised |-> TRUE]
    ELSE LET s1 == [self EXCEPT !.response = r]
         IN IF ~check_response(s1.response, None)
            THEN [self |-> s1, raised |-> TRUE]
            ELSE update_task_response(
                     [s1 EXCEPT !.response = Json(s1.response.body)])

\* mutant of update: the payload is decoded and never applied
update_not_applied(self, r) ==
    IF r.kind = "exc" THEN [self |-> self, raised |-> TRUE]
    ELSE LET s1 == [self EXCEPT !.response = r]
         IN IF s1.status \in DONE_STATUS
            THEN [self |-> s1, raised |-> FALSE]
            ELSE IF ~check_response(s1.response, None)
            THEN [self |-> s1, raised |-> TRUE]
            ELSE [self |-> [s1 EXCEPT !.response = Json(s1.response.body)],
                  raised |-> FALSE]

\* update() from the point where the awaited get_tasks_by_id gives r
update(self, r) ==
    IF r.kind = "exc" THEN [self |-> self, raised |-> TRUE]
    ELSE LET s1 == [self EXCEPT !.response = r]
         IN IF s1.status \in DONE_STATUS
            THEN [self |-> s1, raised |-> FALSE]
            ELSE IF ~check_response(s1.response, None)
            THEN [self |-> s1, raised |-> TRUE]
            ELSE update_task_response(
                     [s1 EXCEPT !.response = Json(s1.response.body)])

\* the subclasses of CoreTask
Variants ==
    {"UploadTask", "GPUploadTask", "TrainTask", "GPTrainTask", "TrainTSTask",
     "PredictTask", "PredictTSTask", "SetupTask", "GPSetupTask",
     "GPPredictTask"}

\* run() of the class cls: each builds its parameters and calls
\* run_core_task with its API function.  GPPredictTask.run binds
\* gp_pred_params and then passes **pred_params, a name that is bound
\* nowhere: it raises NameError before run_core_task is called.
\* called: the API function was called
run(cls, self, cnt, r) ==
    IF cls = "GPPredictTask"
    THEN [self |-> self, cnt |-> cnt, raised |-> TRUE, called |-> FALSE]
    ELSE LET out == run_core_task(self, cnt, r)
         IN [self |-> out.self, cnt |-> out.cnt, raised |-> out.raised,
             called |-> TRUE]

\* stop(), r the outcome of put_tasks_stop_by_id when it is called
stop(self, r) ==
    IF self.id # None /\ (r.kind = "exc" \/ ~check_response(r, None))
    THEN [self |-> self, raised |-> TRUE]
    ELSE [self |-> [self EXCEPT !.status = FAIL], raised |-> FALSE]

(* ---------------------------------------------------------------- state *)
\* last: the call that made the latest step: the task, the method, what the
\* service call of the method gave (NoCall when it made none) and whether
\* the method raised
NoCall == NoResponse
Did(t, op, r, raised) == [task |-> t, op |-> op, r |-> r, raised |-> raised]

Init ==
    /\ status = [t \in Tasks |-> PENDING]
    /\ result = [t \in Tasks |-> None]
    /\ id = [t \in Tasks |-> None]
    /\ response = [t \in Tasks |-> NoResponse]
    /\ progress = [t \in Tasks |-> 0]
    /\ pbar = [t \in Tasks |-> NoBar]
    /\ BAR_CNT = 0
    /\ pc = [t \in Tasks |-> "idle"]
    /\ task_id = [t \in Tasks |-> None]
    /\ ran = [t \in Tasks |-> FALSE]
    /\ last = Did(None, "init", NoCall, FALSE)
    /\ class = [t \in Tasks |-> "UploadTask"]

\* mutant of Store: the fields are class attributes, shared by every task
Store_shared(t, self) ==
    /\ status' = [u \in Tasks |-> self.status]
    /\ result' = [u \in Tasks |-> self.result]
    /\ id' = [u \in Tasks |-> self.id]
    /\ response' = [u \in Tasks |-> self.response]
    /\ progress' = [u \in Tasks |-> self.progress]
    /\ pbar' = [u \in Tasks |-> self.pbar]

\* store the fields of task t
Store(t, self) ==
    /\ status' = [status EXCEPT ![t] = self.status]
    /\ result' = [result EXCEPT ![t] = self.result]
    /\ id' = [id EXCEPT ![t] = self.id]
    /\ response' = [response EXCEPT ![t] = self.response]
    /\ progress' = [progress EXCEPT ![t] = self.progress]
    /\ pbar' = [pbar EXCEPT ![t] = self.pbar]

\* t.run(): run_core_task itself tests nothing; a task instance is single
\* use, its run() is called once (a second call is left undefined)
Run(t, r) ==
    /\ ~ran[t]
    /\ LET out == run(class[t], Self(t), BAR_CNT, r)
       IN /\ Store(t, out.self)
          /\ BAR_CNT' = out.cnt
          /\ last' = Did(t, "run", IF out.called THEN r ELSE NoCall,
                          out.raised)
    /\ ran' = [ran EXCEPT ![t] = TRUE]
    /\ UNCHANGED <<pc, task_id, class>>

\* t.update() up to its await: partial() binds task_id = self.id and the
\* query goes to the executor.  The caller awaits one update() of a task
\* before it calls the next; run() and stop() of the task, which do not
\* suspend, can come while the update() is suspended
UpdateCall(t) ==
    /\ pc[t] = "idle"
    /\ pc' = [pc EXCEPT ![t] = "await"]
    /\ task_id' = [task_id EXCEPT ![t] = id[t]]
    /\ last' = Did(t, "call", NoCall, FALSE)
    /\ UNCHANGED <<attrs, BAR_CNT, ran, class>>

\* t.update() from its await to its end
UpdateReturn(t, r) ==
    /\ pc[t] = "await"
    /\ LET out == update(Self(t), r)
       IN /\ Store(t, out.self)
          /\ last' = Did(t, "update", r, out.raised)
    /\ pc' = [pc EXCEPT ![t] = "idle"]
    /\ task_id' = [task_id EXCEPT ![t] = None]
    /\ UNCHANGED <<BAR_CNT, ran, class>>

\* t.stop()
Stop(t, r) ==
    /\ LET out == stop(Self(t), r)
       IN /\ Store(t, out.self)
          /\ last' = Did(t, "stop", IF id[t] # None THEN r ELSE NoCall,
                          out.raised)
    /\ UNCHANGED <<BAR_CNT, pc, task_id, ran, class>>

Next ==
    \E t \in SeqTasks :
        \/ \E r \in SubmitOutcomes : Run(t, r)
        \/ UpdateCall(t)
        \/ \E r \in QueryOutcomes(task_id[t]) : UpdateReturn(t, r)
        \/ \E r \in StopOutcomes : Stop(t, r)

Spec == Init /\ [][Next]_vars

\* the concurrent specification: every task instance, with the status
\* payloads of a job's life: progress alone, status done alone, and the
\* closing payload with status, result and progress
ConcBodies ==
    {[EmptyBody EXCEPT !.progress = 295],
     [EmptyBody EXCEPT !.status = DONE]}
    \cup {[EmptyBody EXCEPT !.status = DONE, !.result = ResultNames[1],
                            !.progress = 1000]}

\* the service issues each job its own identifier
JobOf(t) == IF t = "t1" THEN IdNames[1] ELSE IdNames[2]
ConcSubmitOutcomes(t) ==
    {r \in SubmitOutcomes : Has(r.body, "id") => r.body.id = JobOf(t)}

ConcQueryOutcomes(tid) ==
    {r \in QueryOutcomes(tid) : r.ok => r.body \in ConcBodies}

NextConc ==
    \E t \in Tasks :
        \/ \E r \in ConcSubmitOutcomes(t) : Run(t, r)
        \/ UpdateCall(t)
        \/ \E r \in ConcQueryOutcomes(task_id[t]) : UpdateReturn(t, r)
        \/ \E r \in StopOutcomes : Stop(t, r)

SpecConc == Init /\ [][NextConc]_vars

\* the specification of the task variants: the task is of any subclass of
\* CoreTask (Spec and SpecConc run UploadTask instances)
InitVariants ==
    /\ status = [t \in Tasks |-> PENDING]
    /\ result = [t \in Tasks |-> None]
    /\ id = [t \in Tasks |-> None]
    /\ response = [t \in Tasks |-> NoResponse]
    /\ progress = [t \in Tasks |-> 0]
    /\ pbar = [t \in Tasks |-> NoBar]
    /\ BAR_CNT = 0
    /\ pc = [t \in Tasks |-> "idle"]
    /\ task_id = [t \in Tasks |-> None]
    /\ ran = [t \in Tasks |-> FALSE]
    /\ last = Did(None, "init", NoCall, FALSE)
    /\ class \in [Tasks -> Variants]

NextVariants ==
    \E t \in SeqTasks :
        \/ \E r \in SubmitOutcomes : Run(t, r)
        \/ UpdateCall(t)
        \/ \E r \in ConcQueryOutcomes(task_id[t]) : UpdateReturn(t, r)
        \/ \E r \in StopOutcomes : Stop(t, r)

SpecVariants == InitVariants /\ [][NextVariants]_vars

\* the payloads of the polled task: status and progress, each held or not
\* (id and result have no part in is_done)
LiveQueryOutcomes(tid) ==
    {r \in QueryOutcomes(tid) :
        r.ok => (~Has(r.body, "id") /\ ~Has(r.body, "result"))}

\* get_tasks_by_id answers with a payload whose status is terminal
TerminalOutcomes(tid) ==
    {r \in LiveQueryOutcomes(tid) : r.ok /\ r.body.status \in DONE_STATUS}

NextLive ==
    \E t \in SeqTasks :
        \/ \E r \in SubmitOutcomes : Run(t, r)
        \/ UpdateCall(t)
        \/ \E r \in LiveQueryOutcomes(task_id[t]) : UpdateReturn(t, r)
        \/ \E r \in StopOutcomes : Stop(t, r)

\* the specification of a polled task: the caller calls update() again as
\* long as the task is not done, the executor ends every query, and (the
\* premise of the polling loop) the service, asked again and again, does
\* answer with a terminal status at some time
Polling(t) ==
    /\ WF_vars(not_done(Self(t)) /\ UpdateCall(t))
    /\ WF_vars(\E r \in LiveQueryOutcomes(task_id[t]) : UpdateReturn(t, r))
    /\ SF_vars(\E r \in TerminalOutcomes(task_id[t]) : UpdateReturn(t, r))

SpecLive == Init /\ [][NextLive]_vars /\ \A t \in SeqTasks : Polling(t)

(* ================================================================ claims *)
\* the step just taken is t.run()
IsRun(t) == ~ran[t] /\ ran'[t]
\* the step just taken is the end of t.update()
IsUpdateReturn(t) == pc[t] = "await" /\ pc'[t] = "idle"
\* the service call of the step just taken failed: the transport raised, or
\* the answer is no success
CallFailed == last'.r.kind = "exc" \/ (last'.r.kind = "raw" /\ ~last'.r.ok)
\* status, result, progress and id of t are left as they were
KeepsState(t) ==
    /\ status'[t] = status[t]
    /\ result'[t] = result[t]
    /\ progress'[t] = progress[t]
    /\ id'[t] = id[t]

\* C1: once status is terminal (DONE or a failure state), no run, update or
\* stop changes it to another value.
C1_NoTransitionOutOfTerminal ==
    [][\A t \in Tasks :
         status[t] \in DONE_STATUS => status'[t] = status[t]]_vars

\* C2: stop() always leaves status == FAIL and is_done() true, with or
\* without a remote id, whether the cancellation request succeeds or fails,
\* and raises nothing.
C2_StopAlwaysFails ==
    last.op = "stop" =>
        /\ status[last.task] = FAIL
        /\ is_done(Self(last.task))
        /\ ~last.raised

\* C3: update() called on a task whose is_done() is true changes no field
\* (status, result, progress, id, last response) and raises no error.
C3_UpdateOnDoneIsNoop ==
    [][\A t \in Tasks :
         (/\ last.op = "call" /\ last.task = t
          /\ is_done(Self(t))
          /\ IsUpdateReturn(t))
         => (Self(t)' = Self(t) /\ ~last'.raised)]_vars

\* C4 (as stated): progress is non-decreasing across successive update()
\* calls, even when the payload reports a smaller value.
C4_ProgressNonDecreasing ==
    [][\A t \in Tasks :
         IsUpdateReturn(t) => progress'[t] >= progress[t]]_vars

\* C4 (amended): update() stores the progress value of the payload it
\* applies as it is, smaller or not, and leaves progress alone otherwise;
\* so progress decreases exactly when the payload reports less.
C4_ProgressFollowsPayload ==
    [][\A t \in Tasks :
         IsUpdateReturn(t) =>
             IF /\ ~is_done(Self(t))
                /\ last'.r.kind = "raw" /\ last'.r.ok
                /\ Has(last'.r.body, "progress")
             THEN progress'[t] = last'.r.body.progress
             ELSE progress'[t] = progress[t]]_vars

\* C4 witness: an update() has lowered progress from 1.0 to 0.295 (the bar,
\* at 100 before, went back by 70).
C4_Witness ==
    \E t \in Tasks :
        /\ last.task = t /\ last.op = "update" /\ ~last.raised
        /\ last.r.body.progress = 295
        /\ progress[t] = 295
        /\ pbar[t].n = 30

\* the tasks that hold a progress bar
Registered == {t \in Tasks : pbar[t] # NoBar}

\* C5: any two tasks that register a progress bar, in whatever order their
\* run() calls come, hold distinct positions, and a later registration gets
\* a higher position than every earlier one: the k-th registration gets
\* position k-1 (the counter is read and incremented in one step).
C5_DistinctOrderedSlots ==
    [][/\ \A t, u \in Tasks :
             (t # u /\ pbar'[t] # NoBar /\ pbar'[u] # NoBar)
             => pbar'[t].position # pbar'[u].position
       /\ \A t \in Tasks :
             (pbar[t] = NoBar /\ pbar'[t] # NoBar) =>
                 /\ pbar'[t].position = Cardinality(Registered)
                 /\ \A u \in Registered :
                        /\ pbar'[t].position > pbar[u].position
                        /\ pbar'[u] = pbar[u]]_vars

\* C5 witness: both tasks are registered, t2 before t1.
C5_Witness ==
    /\ pbar["t2"].position = 0
    /\ pbar["t1"].position = 1
    /\ BAR_CNT = 2

\* C6: when the service rejects the request of run() or answers without a
\* job identifier, run() raises and leaves the task as it was: status stays
\* PENDING, id stays None, no bar is registered and BAR_CNT is not
\* incremented.
C6_FailedRunChangesNothing ==
    [][\A t \in Tasks :
         (IsRun(t) /\ (CallFailed \/ ~Has(last'.r.body, "id"))) =>
             /\ last'.raised
             /\ Self(t)' = Self(t)
             /\ BAR_CNT' = BAR_CNT
             /\ id'[t] = None
             /\ pbar'[t] = NoBar
             /\ (status[t] = PENDING => status'[t] = PENDING)]_vars

\* C6 witness: run() of a fresh task was answered without an identifier and
\* has raised.
C6_Witness ==
    \E t \in Tasks :
        /\ last = Did(t, "run", Raw(TRUE, EmptyBody), TRUE)
        /\ ran[t]
        /\ status[t] = PENDING
        /\ id[t] = None
        /\ pbar[t] = NoBar
        /\ BAR_CNT = 0

\* C7: is_success() and is_fail() are never both true.
C7_SuccessFailExclusive ==
    \A t \in Tasks : ~(is_success(Self(t)) /\ is_fail(Self(t)))

\* C7 witness: a task that is done with a result, so is_success() is true
\* and both disjuncts of is_fail() are false.
C7_Witness ==
    \E t \in Tasks :
        /\ status[t] = DONE
        /\ result[t] \in Results
        /\ is_success(Self(t))

\* C8: when the status query of update() fails (transport error or
\* non-success response) the failure is raised to the caller and status,
\* result, progress and id are unchanged.
C8_QueryFailureRaised ==
    [][\A t \in Tasks :
         (IsUpdateReturn(t) /\ CallFailed)
         => (last'.raised /\ KeepsState(t))]_vars

\* C9: an update() that gets a payload for a task that is not done applies
\* every field the payload holds, leaves the attribute of every field the
\* payload omits as it was, and raises no error.
C9_MissingFieldsSkipped ==
    [][\A t \in Tasks :
         (/\ IsUpdateReturn(t)
          /\ ~is_done(Self(t))
          /\ last'.r.kind = "raw" /\ last'.r.ok) =>
             LET body == last'.r.body
             IN /\ ~last'.raised
                /\ response'[t] = Json(body)
                /\ id'[t] = IF Has(body, "id") THEN body.id ELSE id[t]
                /\ progress'[t] = IF Has(body, "progress")
                                  THEN body.progress ELSE progress[t]
                /\ result'[t] = IF Has(body, "result")
                                THEN body.result ELSE result[t]
                /\ status'[t] = IF Has(body, "status")
                                THEN body.status ELSE status[t]]_vars

\* C9 witness: a payload holding only progress was applied to a running
\* task: progress changed, status did not.
C9_Witness ==
    \E t \in Tasks :
        /\ last = Did(t, "update",
                      Raw(TRUE, [EmptyBody EXCEPT !.progress = 295]), FALSE)
        /\ response[t] = Json([EmptyBody EXCEPT !.progress = 295])
        /\ progress[t] = 295
        /\ status[t] = RUNNING
        /\ result[t] = None

\* C10: a run() the service accepts with an identifier stores it as id,
\* registers one bar at the position the counter held, increments BAR_CNT
\* by exactly 1 and ends with status RUNNING; and status becomes RUNNING
\* only in a state where the id is stored and the bar registered.
C10_AcceptedRun ==
    [][\A t \in Tasks :
         /\ (IsRun(t) /\ ~CallFailed /\ Has(last'.r.body, "id")) =>
               /\ ~last'.raised
               /\ id'[t] = last'.r.body.id
               /\ pbar[t] = NoBar
               /\ pbar'[t] = [position |-> BAR_CNT, n |-> 0]
               /\ BAR_CNT' = BAR_CNT + 1
               /\ status'[t] = RUNNING
         /\ (status[t] # RUNNING /\ status'[t] = RUNNING) =>
               (id'[t] # None /\ pbar'[t] # NoBar)]_vars

\* C10 witness: an accepted run(), stored with the second identifier.
C10_Witness ==
    \E t \in Tasks :
        /\ last.task = t /\ last.op = "run" /\ ~last.raised
        /\ id[t] = IdNames[2]
        /\ pbar[t] = [position |-> 0, n |-> 0]
        /\ BAR_CNT = 1
        /\ status[t] = RUNNING

\* the update() of t that ends in the step just taken got a payload and the
\* task was not done: the payload is applied
Applies(t) ==
    /\ IsUpdateReturn(t)
    /\ ~is_done(Self(t))
    /\ last'.r.kind = "raw" /\ last'.r.ok

C12_IdImmutable ==
    [][\A t \in Tasks :
         /\ (id'[t] # None => pbar'[t] # NoBar)
         /\ ((IsUpdateReturn(t) \/ (last'.op = "stop" /\ last'.task = t))
             /\ id[t] # None) => id'[t] = id[t]]_vars

\* C12 (amended): id is None until run() succeeds; stop() never changes it;
\* update() changes it only by storing the id of a payload it applies, and
\* then to exactly that id.
C12_IdFollowsPayload ==
    [][\A t \in Tasks :
         /\ (id'[t] # None => pbar'[t] # NoBar)
         /\ (last'.op = "stop" /\ last'.task = t) => id'[t] = id[t]
         /\ IsUpdateReturn(t) =>
               id'[t] = IF Applies(t) /\ Has(last'.r.body, "id")
                        THEN last'.r.body.id ELSE id[t]]_vars

\* C12 witness: an update() has applied a payload that holds the id J2, and
\* the id of the task is J2.
C12_Witness ==
    \E t \in Tasks :
        /\ last.task = t /\ last.op = "update" /\ ~last.raised
        /\ last.r.body.id = IdNames[2]
        /\ response[t] = Json(last.r.body)
        /\ id[t] = IdNames[2]
        /\ pbar[t] # NoBar

\* C13 (as stated): status starts at PENDING and no update() moves a
\* RUNNING task back to PENDING.
C13_NoBackToPending ==
    [][\A t \in Tasks :
         (IsUpdateReturn(t) /\ status[t] = RUNNING)
         => status'[t] # PENDING]_vars

\* C13 (amended): status is PENDING until the first run() or stop(); an
\* update() that applies a payload stores the status of the payload,
\* whatever it is (PENDING too), and otherwise leaves status as it was.
C13_StatusFollowsPayload ==
    [][\A t \in Tasks :
         /\ (~ran'[t] => status'[t] \in {PENDING, FAIL})
         /\ IsUpdateReturn(t) =>
               status'[t] = IF Applies(t) /\ Has(last'.r.body, "status")
                            THEN last'.r.body.status ELSE status[t]]_vars

\* C13 witness: a submitted task is PENDING again after a payload with
\* status pending.
C13_Witness ==
    \E t \in Tasks :
        /\ last.task = t /\ last.op = "update" /\ ~last.raised
        /\ last.r.body.status = PENDING
        /\ status[t] = PENDING
        /\ pbar[t] # NoBar

\* C14: result is None at construction and until the task succeeds: a
\* result that is not None implies status == DONE.
C14_ResultOnlyWhenDone ==
    \A t \in Tasks : result[t] # None => status[t] = DONE

\* C15: with updates of several tasks in flight and ending in any order,
\* an update() or stop() of one task leaves status, result, progress, id,
\* response and bar of every other task unchanged.
C15_OtherTasksUntouched ==
    [][\A t, u \in Tasks :
         (/\ t # u
          /\ last'.task = t
          /\ last'.op \in {"call", "update", "stop"})
         => (/\ Self(u)' = Self(u)
             /\ pc'[u] = pc[u]
             /\ task_id'[u] = task_id[u])]_vars

\* C15 witness: the update() of t1 has applied a payload while the update()
\* of t2, called before it, is still suspended.
C15_Witness ==
    /\ last.task = "t1" /\ last.op = "update" /\ ~last.raised
    /\ progress["t1"] = 295
    /\ pc["t2"] = "await"
    /\ task_id["t2"] = JobOf("t2")
    /\ status["t2"] = RUNNING
    /\ progress["t2"] = 0

\* C18: when stop() has run while an update() of the task was suspended at
\* its query, the update() applies nothing of the payload when it resumes:
\* status stays FAIL and result, progress and id stay as stop() left them,
\* whatever the payload reports.
C18_StoppedUpdateAppliesNothing ==
    [][\A t \in Tasks :
         (/\ pc[t] = "await"
          /\ last.task = t /\ last.op = "stop" /\ ~last.raised
          /\ IsUpdateReturn(t))
         => (/\ status'[t] = FAIL
             /\ KeepsState(t)
             /\ pbar'[t] = pbar[t])]_vars

\* C18 witness: a stopped task whose update() got a payload with status
\* done, a result and progress 1.0, and kept status FAIL, no result and
\* progress 0.
C18_Witness ==
    \E t \in Tasks :
        /\ last = Did(t, "update",
                      Raw(TRUE, [EmptyBody EXCEPT !.status = DONE,
                                                  !.result = ResultNames[1],
                                                  !.progress = 1000]),
                      FALSE)
        /\ status[t] = FAIL
        /\ result[t] = None
        /\ progress[t] = 0
        /\ id[t] # None

\* C19: is_done() is true exactly when one, and only one, of is_success()
\* and is_fail() is true; a task that is not done is neither.
C19_DoneIffOneVerdict ==
    \A t \in Tasks :
        /\ is_done(Self(t)) <=> (is_success(Self(t)) # is_fail(Self(t)))
        /\ ~is_done(Self(t)) =>
               (~is_success(Self(t)) /\ ~is_fail(Self(t)))

\* C19 witness: a task stopped after it was done with a result: is_done()
\* and is_fail() are true, is_success() is false.
C19_Witness ==
    \E t \in Tasks :
        /\ status[t] = FAIL /\ result[t] # None
        /\ is_done(Self(t)) /\ is_fail(Self(t)) /\ ~is_success(Self(t))

\* int(progress * 100): the whole percent of a progress value
Percent(p) == int(p * PbarTotal, 10 * PbarTotal)

\* C20: as long as the progress values of the payloads do not decrease, the
\* sum of the deltas reported to the bar is the whole percent of the
\* progress held: an update() that does not lower progress takes a bar that
\* shows the percent of the old progress to the percent of the new one (so
\* a task at progress 1.0 has had 100 reported).
C20_BarShowsPercent ==
    [][\A t \in Tasks :
         (/\ IsUpdateReturn(t)
          /\ progress'[t] >= progress[t]
          /\ pbar[t].n = Percent(progress[t]))
         => pbar'[t].n = Percent(progress'[t])]_vars

\* C16: run() of every task variant calls the shared run_core_task with
\* its API function, and for each variant a submission the service would
\* accept ends with the id stored and status RUNNING.
C16_VariantsDelegate ==
    [][\A t \in Tasks :
         IsRun(t) =>
             /\ last'.r # NoCall
             /\ (~CallFailed /\ Has(last'.r.body, "id")) =>
                   (/\ ~last'.raised
                    /\ id'[t] = last'.r.body.id
                    /\ status'[t] = RUNNING)]_vars

\* C17: a task that was submitted with success and is polled with update()
\* while it is not done reaches is_done(), when the service reports a
\* terminal status at some time and the queries do not fail for ever.
C17_PolledTaskGetsDone ==
    \A t \in SeqTasks : (pbar[t] # NoBar) ~> is_done(Self(t))

\* C17 witness: a submitted task that an update() has taken to DONE.
C17_Witness ==
    \E t \in SeqTasks :
        /\ pbar[t] # NoBar
        /\ last.task = t /\ last.op = "update" /\ ~last.raised
        /\ last.r.body.status = DONE
        /\ response[t] = Json(last.r.body)
        /\ status[t] = DONE
        /\ is_done(Self(t))

====
